---- MODULE Spec2Model ----
(***************************************************************************)
(* State-machine model of the HomePage component (schema editor, live form *)
(* preview, submissions) and of the JsonSchemaValidator contract.          *)
(***************************************************************************)
EXTENDS Integers, Sequences, FiniteSets, TLC

VARIABLES jsonCode, parsedJson, error, formData, successMessage, fieldErrors,
          submissions, formKey, timers, event

vars == <<jsonCode, parsedJson, error, formData, successMessage, fieldErrors,
          submissions, formKey, timers, event>>

(***************************************************************************)
(* JavaScript values.  Every value carries its runtime type tag.           *)
(***************************************************************************)
JStr(s) == [t |-> "string", s |-> s]
JNum(n) == [t |-> "number", n |-> n]
JBool(b) == [t |-> "boolean", b |-> b]
JNull == [t |-> "null"]
JUndefined == [t |-> "undefined"]
JArr(a) == [t |-> "array", a |-> a]
JObj(o) == [t |-> "object", o |-> o]

\* An object with no own properties.
EmptyObject == [k \in {} |-> JUndefined]

\* Property read obj[k]: undefined when the key is not an own property.
Get(obj, k) == IF k \in DOMAIN obj THEN obj[k] ELSE JUndefined

\* { ...obj, [k]: v }
Put(obj, k, v) == [x \in DOMAIN obj \cup {k} |-> IF x = k THEN v ELSE obj[x]]

\* JavaScript truthiness, as used by `if (error)` and `formData[field.id]`.
Truthy(v) ==
  CASE v.t = "string" -> v.s # ""
    [] v.t = "boolean" -> v.b
    [] v.t = "number" -> v.n # 0
    [] v.t = "null" -> FALSE
    [] v.t = "undefined" -> FALSE
    [] OTHER -> TRUE

\* String(v) for the values a form control reports.
ToJsString(v) ==
  CASE v.t = "string" -> v.s
    [] v.t = "boolean" -> IF v.b THEN "true" ELSE "false"
    [] v.t = "null" -> "null"
    [] OTHER -> "undefined"

(***************************************************************************)
(* Editor text.  A text is either malformed (JSON.parse throws a           *)
(* SyntaxError with the engine's message) or a JSON syntax tree: literals, *)
(* arrays of nodes, and objects as member lists in source order (a key may *)
(* be written twice).                                                      *)
(***************************************************************************)
MalformedText(src, msg) == [syntax |-> "error", source |-> src, message |-> msg]
JsonText(tree) == [syntax |-> "json", tree |-> tree]

Lit(v) == [node |-> "literal", value |-> v]
ArrNode(items) == [node |-> "array", items |-> items]
ObjNode(members) == [node |-> "object", members |-> members]
S(s) == Lit(JStr(s))

RECURSIVE ParseNode(_)
\* The value JSON.parse builds for a syntax tree: for an object the last
\* member written under a key wins.
ParseNode(n) ==
  CASE n.node = "literal" -> n.value
    [] n.node = "array" -> JArr([i \in 1..Len(n.items) |-> ParseNode(n.items[i])])
    [] n.node = "object" ->
         LET keys == {n.members[i][1] : i \in 1..Len(n.members)}
             last(k) == CHOOSE i \in 1..Len(n.members) :
                          /\ n.members[i][1] = k
                          /\ \A j \in 1..Len(n.members) : n.members[j][1] = k => j <= i
         IN JObj([k \in keys |-> ParseNode(n.members[last(k)][2])])

\* JSON.parse(value): a value, or a thrown SyntaxError (no `errors` property).
JSON_parse(text) ==
  IF text.syntax = "json"
    THEN [threw |-> FALSE, value |-> ParseNode(text.tree)]
    ELSE [threw |-> TRUE, message |-> text.message]

\* The number a literal beyond the double range (1e999) parses to.  Infinity
\* is truthy; n is read by Truthy only.
JInfinity == [t |-> "number", n |-> 1, finite |-> FALSE]

IsFinite(v) == "finite" \notin DOMAIN v

RECURSIVE KeysInOrder(_)
\* The own keys of an object, one after the other.  The order in which the
\* members are written does not change what the text parses to.
KeysInOrder(keys) ==
  IF keys = {} THEN <<>>
  ELSE LET k == CHOOSE x \in keys : TRUE IN <<k>> \o KeysInOrder(keys \ {k})

RECURSIVE StringifyNode(_)
\* The syntax tree JSON.stringify writes for a value: a number that is not
\* finite is written as null.
StringifyNode(v) ==
  CASE v.t = "array" -> ArrNode([i \in 1..Len(v.a) |-> StringifyNode(v.a[i])])
    [] v.t = "object" ->
         LET ks == KeysInOrder(DOMAIN v.o)
         IN ObjNode([i \in 1..Len(ks) |-> <<ks[i], StringifyNode(v.o[ks[i]])>>])
    [] v.t = "number" -> IF IsFinite(v) THEN Lit(v) ELSE Lit(JNull)
    [] OTHER -> Lit(v)

\* JSON.stringify(value) for a value JSON.parse returned.
JSON_stringify(v) == JsonText(StringifyNode(v))

(***************************************************************************)
(* JsonSchemaValidator (zod).  Each parser returns the sequence of issues  *)
(* it adds, in the order zod adds them; a path is the sequence of keys and *)
(* indices leading to the value.                                           *)
(***************************************************************************)
Issue(path, message) == [path |-> path, message |-> message]

\* zod's invalid_type message.
InvalidType(expected, v) ==
  IF v.t = "undefined" THEN "Required"
  ELSE "Expected " \o expected \o ", received " \o v.t

FieldType == {"text", "email", "select", "radio", "textarea", "checkbox"}

\* z.string().min(1, msg)
ZodStringMin1(v, path, msg) ==
  IF v.t # "string" THEN <<Issue(path, InvalidType("string", v))>>
  ELSE IF Len(v.s) < 1 THEN <<Issue(path, msg)>>
  ELSE <<>>

\* z.string().optional()
ZodOptionalString(v, path) ==
  IF v.t = "undefined" THEN <<>>
  ELSE IF v.t # "string" THEN <<Issue(path, InvalidType("string", v))>>
  ELSE <<>>

\* A validator that lets any string through as a field type.
ZodFieldTypeAnyString(v, path) ==
  IF v.t = "string" THEN <<>>
  ELSE <<Issue(path, "Invalid field type provided.")>>

\* z.enum([...], { errorMap })
ZodFieldTypeEnum(v, path) ==
  IF v.t = "string" /\ v.s \in FieldType THEN <<>>
  ELSE <<Issue(path, "Invalid field type provided.")>>

\* z.boolean()
ZodBoolean(v, path) ==
  IF v.t # "boolean" THEN <<Issue(path, InvalidType("boolean", v))>> ELSE <<>>

RECURSIVE Flatten(_)
\* Concatenation of a sequence of issue sequences.
Flatten(ss) == IF ss = <<>> THEN <<>> ELSE Head(ss) \o Flatten(Tail(ss))

\* Array index i (0-based) as a path element.
Index(i) == ToString(i - 1)

\* validation: z.object({ pattern, message }).optional()
ZodValidation(v, path) ==
  IF v.t = "undefined" THEN <<>>
  ELSE IF v.t # "object" THEN <<Issue(path, InvalidType("object", v))>>
  ELSE ZodStringMin1(Get(v.o, "pattern"), Append(path, "pattern"),
                     "Validation pattern must be a non-empty string.")
       \o ZodStringMin1(Get(v.o, "message"), Append(path, "message"),
                        "Validation message must be a non-empty string.")

\* one element of options: z.object({ value, label })
ZodOption(v, path) ==
  IF v.t # "object" THEN <<Issue(path, InvalidType("object", v))>>
  ELSE ZodStringMin1(Get(v.o, "value"), Append(path, "value"),
                     "Option value is required.")
       \o ZodStringMin1(Get(v.o, "label"), Append(path, "label"),
                        "Option label is required.")

\* options: z.array(option).optional()
ZodOptions(v, path) ==
  IF v.t = "undefined" THEN <<>>
  ELSE IF v.t # "array" THEN <<Issue(path, InvalidType("array", v))>>
  ELSE Flatten([i \in 1..Len(v.a) |-> ZodOption(v.a[i], Append(path, Index(i)))])

\* one element of fields
ZodField(v, path) ==
  IF v.t # "object" THEN <<Issue(path, InvalidType("object", v))>>
  ELSE ZodStringMin1(Get(v.o, "id"), Append(path, "id"), "Field ID is required.")
       \o ZodFieldTypeEnum(Get(v.o, "type"), Append(path, "type"))
       \o ZodStringMin1(Get(v.o, "label"), Append(path, "label"),
                        "Field label is required.")
       \o ZodBoolean(Get(v.o, "required"), Append(path, "required"))
       \o ZodOptionalString(Get(v.o, "placeholder"), Append(path, "placeholder"))
       \o ZodValidation(Get(v.o, "validation"), Append(path, "validation"))
       \o ZodOptions(Get(v.o, "options"), Append(path, "options"))

\* A validator that stops at the first field with an issue.
ZodFieldsFailFast(v, path) ==
  IF v.t # "array" THEN <<Issue(path, InvalidType("array", v))>>
  ELSE IF Len(v.a) < 1
    THEN <<Issue(path, "Fields array must have at least one field.")>>
    ELSE LET bad == {i \in 1..Len(v.a) : ZodField(v.a[i], Append(path, Index(i))) # <<>>} IN
         IF bad = {} THEN <<>>
         ELSE LET i == CHOOSE k \in bad : \A m \in bad : k <= m IN
              ZodField(v.a[i], Append(path, Index(i)))

\* fields: z.array(field).min(1, msg)
ZodFields(v, path) ==
  IF v.t # "array" THEN <<Issue(path, InvalidType("array", v))>>
  ELSE (IF Len(v.a) < 1
          THEN <<Issue(path, "Fields array must have at least one field.")>>
          ELSE <<>>)
       \o Flatten([i \in 1..Len(v.a) |-> ZodField(v.a[i], Append(path, Index(i)))])

\* JsonSchemaValidator.parse(v): the issues of the ZodError it throws, or <<>>
\* when it returns.
JsonSchemaValidator(v) ==
  IF v.t # "object" THEN <<Issue(<<>>, InvalidType("object", v))>>
  ELSE ZodStringMin1(Get(v.o, "formTitle"), <<"formTitle">>, "Form title is required.")
       \o ZodStringMin1(Get(v.o, "formDescription"), <<"formDescription">>,
                        "Form description is required.")
       \o ZodFields(Get(v.o, "fields"), <<"fields">>)

(***************************************************************************)
(* new RegExp(pattern).test(s) for the patterns and strings of the model.  *)
(***************************************************************************)
EmailPattern == "^[^\\s@]+@[^\\s@]+\\.[^\\s@]+$"
LettersPattern == "^[a-z]+$"
UnclosedGroupPattern == "("

\* new RegExp(pattern) throws a SyntaxError for these.
RegExpThrows(pattern) == pattern \in {UnclosedGroupPattern}

\* regex.test(s)
RegExpTest(pattern, s) ==
  \/ pattern = EmailPattern /\ s \in {"a@b.co"}
  \/ pattern = LettersPattern /\ s \in {"bad", "true", "false"}

(***************************************************************************)
(* HomePage: state after construction.                                     *)
(***************************************************************************)
\* What the last handler did besides setting state: the export sink it called,
\* the alert it showed, whether an exception escaped it.
Quiet == [sink |-> "none", alert |-> "none", threw |-> FALSE]

\* The text the editor starts with, "{}".
InitialText == JsonText(ObjNode(<<>>))

Init ==
  /\ jsonCode = InitialText
  /\ parsedJson = JUndefined
  /\ error = JNull
  /\ formData = EmptyObject
  /\ successMessage = JNull
  /\ fieldErrors = EmptyObject
  /\ submissions = <<>>
  /\ formKey = 0
  /\ timers = <<>>
  /\ event = Quiet

(***************************************************************************)
(* handleEditorChange                                                      *)
(***************************************************************************)
RECURSIVE Join(_, _)
\* Array.prototype.join over strings.
Join(ss, sep) ==
  IF ss = <<>> THEN ""
  ELSE IF Len(ss) = 1 THEN ss[1]
  ELSE ss[1] \o sep \o Join(Tail(ss), sep)

\* err.errors.map(e => `${e.path.join(" -> ")}: ${e.message}`).join("\n")
FormatErrors(issues) ==
  Join([i \in 1..Len(issues) |->
          Join(issues[i].path, " -> ") \o ": " \o issues[i].message], "\n")

\* A catch branch that forgets setParsedJson(undefined) for a SyntaxError.
EditorOutcomeKeepsDocument(value) ==
  LET r == JSON_parse(value) IN
  IF r.threw
    THEN [parsedJson |-> parsedJson, error |-> JStr(r.message)]
    ELSE LET issues == JsonSchemaValidator(r.value) IN
         IF issues = <<>>
           THEN [parsedJson |-> r.value, error |-> JNull]
           ELSE [parsedJson |-> JUndefined, error |-> JStr(FormatErrors(issues))]

\* A handler that calls setParsedJson(parsed) before the validator runs and
\* whose catch branch does not take it back.
EditorOutcomeSetsDocumentFirst(value) ==
  LET r == JSON_parse(value) IN
  IF r.threw
    THEN [parsedJson |-> JUndefined, error |-> JStr(r.message)]
    ELSE LET issues == JsonSchemaValidator(r.value) IN
         IF issues = <<>>
           THEN [parsedJson |-> r.value, error |-> JNull]
           ELSE [parsedJson |-> r.value, error |-> JStr(FormatErrors(issues))]

\* What the try/catch of handleEditorChange leaves in parsedJson and error.
EditorOutcome(value) ==
  LET r == JSON_parse(value) IN
  IF r.threw
    THEN [parsedJson |-> JUndefined, error |-> JStr(r.message)]
    ELSE LET issues == JsonSchemaValidator(r.value) IN
         IF issues = <<>>
           THEN [parsedJson |-> r.value, error |-> JNull]
           ELSE [parsedJson |-> JUndefined, error |-> JStr(FormatErrors(issues))]

\* An editor change that also starts the session's submissions afresh.
handleEditorChangeDropsSubmissions(value) ==
  /\ jsonCode' = value
  /\ parsedJson' = EditorOutcome(value).parsedJson
  /\ error' = EditorOutcome(value).error
  /\ event' = Quiet
  /\ submissions' = <<>>
  /\ UNCHANGED <<formData, successMessage, fieldErrors, formKey, timers>>

handleEditorChange(value) ==
  /\ jsonCode' = value
  /\ parsedJson' = EditorOutcome(value).parsedJson
  /\ error' = EditorOutcome(value).error
  /\ event' = Quiet
  /\ UNCHANGED <<formData, successMessage, fieldErrors, submissions, formKey, timers>>

(***************************************************************************)
(* validateField, handleFieldChange                                        *)
(***************************************************************************)
\* field.validation?.pattern
ValidationPattern(field) ==
  LET v == Get(field.o, "validation") IN
  IF v.t = "object" THEN Get(v.o, "pattern") ELSE JUndefined

\* field.validation.message
ValidationMessage(field) == Get(Get(field.o, "validation").o, "message")

FieldId(field) == Get(field.o, "id").s

\* A validateField whose update drops the entries of the other fields:
\* setFieldErrors({ [field.id]: ... }) without the spread of prev.
validateFieldReplacesErrors(field, value, prev) ==
  IF Truthy(ValidationPattern(field))
    THEN IF RegExpThrows(ValidationPattern(field).s)
           THEN [threw |-> TRUE, isValid |-> FALSE, fieldErrors |-> prev]
           ELSE LET isValid == RegExpTest(ValidationPattern(field).s, ToJsString(value)) IN
                [threw |-> FALSE, isValid |-> isValid,
                 fieldErrors |-> Put(EmptyObject, FieldId(field),
                                     IF isValid THEN JStr("") ELSE ValidationMessage(field))]
    ELSE [threw |-> FALSE, isValid |-> TRUE, fieldErrors |-> prev]

\* validateField(field, value) run against the pending fieldErrors `prev`:
\* whether new RegExp threw, the returned isValid, and fieldErrors after the
\* queued functional update.
validateField(field, value, prev) ==
  IF Truthy(ValidationPattern(field))
    THEN IF RegExpThrows(ValidationPattern(field).s)
           THEN [threw |-> TRUE, isValid |-> FALSE, fieldErrors |-> prev]
           ELSE LET isValid == RegExpTest(ValidationPattern(field).s, ToJsString(value)) IN
                [threw |-> FALSE, isValid |-> isValid,
                 fieldErrors |-> Put(prev, FieldId(field),
                                     IF isValid THEN JStr("") ELSE ValidationMessage(field))]
    ELSE [threw |-> FALSE, isValid |-> TRUE, fieldErrors |-> prev]

handleFieldChange(field, value) ==
  /\ formData' = Put(formData, FieldId(field), value)
  /\ IF Get(field.o, "type") = JStr("email")
       THEN LET r == validateField(field, value, fieldErrors) IN
            /\ fieldErrors' = r.fieldErrors
            /\ event' = [Quiet EXCEPT !.threw = r.threw]
       ELSE /\ fieldErrors' = fieldErrors
            /\ event' = Quiet
  /\ UNCHANGED <<jsonCode, parsedJson, error, successMessage, submissions, formKey, timers>>

(***************************************************************************)
(* handleCopy, handleDownload, handleDownloadSubmissions                   *)
(***************************************************************************)
\* A copy that forgets the `if (error)` return.
handleCopyIgnoresError ==
  /\ event' = [Quiet EXCEPT !.sink = "copyText", !.alert = "Copied to clipboard!"]
  /\ UNCHANGED <<jsonCode, parsedJson, error, formData, successMessage, fieldErrors,
                 submissions, formKey, timers>>

handleCopy ==
  /\ event' = IF Truthy(error)
                THEN [Quiet EXCEPT !.alert = "Cannot copy invalid JSON!"]
                ELSE [Quiet EXCEPT !.sink = "copyText",
                                               !.alert = "Copied to clipboard!"]
  /\ UNCHANGED <<jsonCode, parsedJson, error, formData, successMessage, fieldErrors,
                 submissions, formKey, timers>>

handleDownload ==
  /\ event' = IF Truthy(error)
                THEN [Quiet EXCEPT !.alert = "Cannot download invalid JSON!"]
                ELSE [Quiet EXCEPT !.sink = "downloadSchema"]
  /\ UNCHANGED <<jsonCode, parsedJson, error, formData, successMessage, fieldErrors,
                 submissions, formKey, timers>>

handleDownloadSubmissions ==
  /\ event' = IF Len(submissions) = 0
                THEN [Quiet
                        EXCEPT !.alert = "No submissions to download!"]
                ELSE [Quiet EXCEPT !.sink = "downloadSubmissions"]
  /\ UNCHANGED <<jsonCode, parsedJson, error, formData, successMessage, fieldErrors,
                 submissions, formKey, timers>>

(***************************************************************************)
(* resetForm, handleSubmit, the success-message timer                      *)
(***************************************************************************)
\* new Date().toISOString(): the clock advances between accepted submits.
Now == JStr("2024-01-01T00:00:0" \o ToString(Len(submissions)) \o ".000Z")

RECURSIVE SubmitLoop(_, _)
\* parsedJson.fields.forEach(...) of handleSubmit from the state `acc`
\* (hasErrors, newFieldErrors, the pending fieldErrors, whether a callback
\* threw) over the remaining fields `fs`.
SubmitLoop(fs, acc) ==
  IF fs = <<>> \/ acc.threw THEN acc
  ELSE LET field == Head(fs)
           value == Get(formData, FieldId(field))
       IN IF Truthy(ValidationPattern(field)) /\ Truthy(value)
            THEN LET r == validateField(field, value, acc.fieldErrors) IN
                 SubmitLoop(Tail(fs),
                   [threw |-> r.threw,
                    hasErrors |-> acc.hasErrors \/ (~r.threw /\ ~r.isValid),
                    newFieldErrors |->
                      IF ~r.threw /\ ~r.isValid
                        THEN Put(acc.newFieldErrors, FieldId(field), ValidationMessage(field))
                        ELSE acc.newFieldErrors,
                    fieldErrors |-> r.fieldErrors])
            ELSE SubmitLoop(Tail(fs), acc)

\* The fields handleSubmit iterates: none when parsedJson is undefined.
SubmitFields == IF parsedJson.t = "object" THEN Get(parsedJson.o, "fields").a ELSE <<>>

SubmitResult ==
  SubmitLoop(SubmitFields,
             [threw |-> FALSE, hasErrors |-> FALSE, newFieldErrors |-> EmptyObject,
              fieldErrors |-> fieldErrors])

\* { ...formData, submittedAt: new Date().toISOString() }
Submission == Put(formData, "submittedAt", Now)

\* A reset that forgets setFormData({}).
resetFormKeepsValues ==
  /\ formData' = formData
  /\ fieldErrors' = EmptyObject
  /\ formKey' = formKey + 1

\* The state resetForm leaves: formData and fieldErrors empty, formKey + 1.
resetForm ==
  /\ formData' = EmptyObject
  /\ fieldErrors' = EmptyObject
  /\ formKey' = formKey + 1

\* A submit that forgets the `if (error)` return.
handleSubmitIgnoresError ==
  LET r == SubmitResult IN
  IF r.threw \/ r.hasErrors
    THEN /\ fieldErrors' = IF r.threw THEN r.fieldErrors ELSE r.newFieldErrors
         /\ event' = [Quiet EXCEPT !.threw = r.threw]
         /\ UNCHANGED <<jsonCode, parsedJson, error, formData, successMessage,
                        submissions, formKey, timers>>
    ELSE /\ submissions' = Append(submissions, Submission)
         /\ successMessage' = JStr("Form submitted successfully!")
         /\ resetForm
         /\ timers' = Append(timers, Len(submissions) + 1)
         /\ event' = Quiet
         /\ UNCHANGED <<jsonCode, parsedJson, error>>

handleSubmit ==
  IF Truthy(error)
    THEN /\ event' = [Quiet EXCEPT !.alert = "Cannot submit invalid JSON!"]
         /\ UNCHANGED <<jsonCode, parsedJson, error, formData, successMessage,
                        fieldErrors, submissions, formKey, timers>>
    ELSE LET r == SubmitResult IN
         IF r.threw
           THEN /\ fieldErrors' = r.fieldErrors
                /\ event' = [Quiet EXCEPT !.threw = TRUE]
                /\ UNCHANGED <<jsonCode, parsedJson, error, formData, successMessage,
                               submissions, formKey, timers>>
           ELSE IF r.hasErrors
             THEN /\ fieldErrors' = r.newFieldErrors
                  /\ event' = Quiet
                  /\ UNCHANGED <<jsonCode, parsedJson, error, formData, successMessage,
                                 submissions, formKey, timers>>
             ELSE /\ submissions' = Append(submissions, Submission)
                  /\ successMessage' = JStr("Form submitted successfully!")
                  /\ resetForm
                  /\ timers' = Append(timers, Len(submissions) + 1)
                  /\ event' = Quiet
                  /\ UNCHANGED <<jsonCode, parsedJson, error>>

\* A callback that runs and leaves the message as it is.
TimerFiresKeepsMessage ==
  /\ timers # <<>>
  /\ successMessage' = successMessage
  /\ timers' = Tail(timers)
  /\ event' = Quiet
  /\ UNCHANGED <<jsonCode, parsedJson, error, formData, fieldErrors, submissions, formKey>>

\* The callback of setTimeout(() => setSuccessMessage(null), 3000): pending
\* callbacks run in the order they were scheduled.
TimerFires ==
  /\ timers # <<>>
  /\ successMessage' = JNull
  /\ timers' = Tail(timers)
  /\ event' = Quiet
  /\ UNCHANGED <<jsonCode, parsedJson, error, formData, fieldErrors, submissions, formKey>>

(***************************************************************************)
(* What the rendered page lets the user do.                                *)
(***************************************************************************)
\* The form is rendered under `!error` and `parsedJson &&`.
FormRendered == ~Truthy(error) /\ Truthy(parsedJson)

RenderedFields == Get(parsedJson.o, "fields").a

\* The strings a user types into a text control.
TypedStrings == {"", "bad", "a@b.co"}

\* option.value of the options a select or radio field renders.
OptionValues(field) ==
  LET os == Get(field.o, "options") IN
  IF os.t = "array" THEN {Get(os.a[i].o, "value") : i \in 1..Len(os.a)} ELSE {}

\* The values the control rendered for a field passes to handleFieldChange.
ControlValues(field) ==
  LET type == Get(field.o, "type").s IN
  CASE type \in {"text", "email", "textarea"} -> {JStr(s) : s \in TypedStrings}
    [] type = "select" -> {JStr("")} \cup OptionValues(field)
    [] type = "radio" -> OptionValues(field)
    [] type = "checkbox" -> {JBool(TRUE), JBool(FALSE)}

\* const value = formData[field.id] || ""
ControlValue(field) ==
  LET v == Get(formData, FieldId(field)) IN IF Truthy(v) THEN v ELSE JStr("")

\* The browser's validity check of <input type="email"> on the model's strings.
HtmlEmailValid(s) == s \in {"", "a@b.co"}

\* The browser dispatches the form's submit event only when every control
\* satisfies its `required` and `type` attributes.
NativeConstraintsHold ==
  \A i \in 1..Len(RenderedFields) :
    LET field == RenderedFields[i]
        type == Get(field.o, "type").s
        value == ControlValue(field)
    IN /\ Get(field.o, "required") = JBool(TRUE) =>
            CASE type = "radio" -> OptionValues(field) = {} \/ value \in OptionValues(field)
              [] type = "checkbox" -> value = JBool(TRUE)
              [] OTHER -> ToJsString(value) # ""
       /\ type = "email" => HtmlEmailValid(ToJsString(value))

(***************************************************************************)
(* The texts the editor reports.                                           *)
(***************************************************************************)
Member(k, n) == <<k, n>>

ValidationMember(pattern, message) ==
  <<Member("validation",
           ObjNode(<<Member("pattern", S(pattern)), Member("message", S(message))>>))>>

FieldNode(id, type, required, more) ==
  ObjNode(<<Member("id", S(id)), Member("type", S(type)), Member("label", S("L")),
            Member("required", Lit(JBool(required)))>> \o more)

SchemaText(fields) ==
  JsonText(ObjNode(<<Member("formTitle", S("T")), Member("formDescription", S("D")),
                     Member("fields", ArrNode(fields))>>))

EmailMessage == "Please enter a valid email address"
LettersMessage == "Letters only"

TruncatedText == MalformedText("{", "Unexpected end of JSON input")

TwoEmptyIdsText ==
  SchemaText(<<FieldNode("", "text", FALSE, <<>>), FieldNode("", "text", FALSE, <<>>)>>)

ContactText ==
  SchemaText(<<FieldNode("email", "email", TRUE, ValidationMember(EmailPattern, EmailMessage)),
               FieldNode("name", "text", FALSE, ValidationMember(LettersPattern, LettersMessage))>>)

DuplicateIdText ==
  SchemaText(<<FieldNode("name", "text", FALSE, <<>>),
               FieldNode("name", "textarea", FALSE,
                         ValidationMember(LettersPattern, "Second rule"))>>)

BadPatternText ==
  SchemaText(<<FieldNode("email", "email", TRUE,
                         ValidationMember(UnclosedGroupPattern, "Invalid"))>>)

EditorTexts == {TruncatedText, ContactText, BadPatternText}

(***************************************************************************)
(* The component's events.                                                 *)
(***************************************************************************)
MaxSubmissions == 2

\* Monaco's onChange; an undefined value leaves every state as it is.
EditorChange == \E value \in EditorTexts : handleEditorChange(value)

FieldChange ==
  /\ FormRendered
  /\ \E i \in 1..Len(RenderedFields) :
       \E value \in ControlValues(RenderedFields[i]) :
         handleFieldChange(RenderedFields[i], value)

Submit ==
  /\ FormRendered
  /\ NativeConstraintsHold
  /\ Len(submissions) < MaxSubmissions
  /\ handleSubmit

Copy == handleCopy

Download == handleDownload

\* The button is disabled while submissions is empty.
DownloadSubmissions == Len(submissions) # 0 /\ handleDownloadSubmissions

Next ==
  \/ EditorChange
  \/ FieldChange
  \/ Submit
  \/ Copy
  \/ Download
  \/ DownloadSubmissions
  \/ TimerFires

Spec == Init /\ [][Next]_vars

\* The browser runs every scheduled timeout callback: a pending callback is
\* not postponed forever.
SpecLive == Spec /\ WF_vars(TimerFires)

(***************************************************************************)
(* The handlers on their own: every handler called in every state, whether *)
(* or not the page offers its control there: handleSubmit while the form   *)
(* is not rendered, handleDownloadSubmissions while its button is          *)
(* disabled.  Fields still come from the active document.                  *)
(***************************************************************************)
MaxHandled == 1

HandlerTexts == {TruncatedText, ContactText}

EditorChangeHandled == \E value \in HandlerTexts : handleEditorChange(value)

SubmitHandled == Len(submissions) < MaxHandled /\ handleSubmit

DownloadSubmissionsHandled == handleDownloadSubmissions

NextHandlers ==
  \/ EditorChangeHandled
  \/ FieldChange
  \/ SubmitHandled
  \/ Copy
  \/ Download
  \/ DownloadSubmissionsHandled
  \/ TimerFires

SpecHandlers == Init /\ [][NextHandlers]_vars

(***************************************************************************)
(* The page under a document whose only field has the id "submittedAt",    *)
(* the key handleSubmit writes the time stamp under, and under a document  *)
(* with a field of another id.                                             *)
(***************************************************************************)
SubmittedAtText ==
  SchemaText(<<FieldNode("submittedAt", "text", FALSE,
                         ValidationMember(LettersPattern, LettersMessage))>>)

\* A document with one optional text field of another id and no rule.
NameOnlyText == SchemaText(<<FieldNode("name", "text", FALSE, <<>>)>>)

SnapshotTexts == {TruncatedText, SubmittedAtText, NameOnlyText}

EditorChangeSnapshot == \E value \in SnapshotTexts : handleEditorChange(value)

NextSnapshot ==
  \/ EditorChangeSnapshot
  \/ FieldChange
  \/ Submit
  \/ Copy
  \/ Download
  \/ DownloadSubmissions
  \/ TimerFires

SpecSnapshot == Init /\ [][NextSnapshot]_vars

(***************************************************************************)
(* The validator on its own: the first editor change, over a wide range of *)
(* texts.                                                                  *)
(***************************************************************************)
MaxFields == 2

Absent == <<>>
Opt(k, nodes) == {<<Member(k, n)>> : n \in nodes} \cup {Absent}

IdChoices == Opt("id", {S("a"), S(""), Lit(JNum(1))})
TypeChoices == Opt("type", {S(t) : t \in FieldType \cup {"date"}})
LabelChoices == {<<Member("label", S("L"))>>, <<Member("label", S(""))>>}
RequiredChoices == Opt("required", {Lit(JBool(TRUE)), S("yes")})
PlaceholderChoices == Opt("placeholder", {S("p"), S(""), Lit(JNum(1))})
ValidationChoices ==
  Opt("validation",
      {ObjNode(<<Member("pattern", S("p")), Member("message", S("m"))>>),
       ObjNode(<<Member("pattern", S("")), Member("message", S("m"))>>),
       ObjNode(<<Member("pattern", S("p"))>>),
       ObjNode(<<>>),
       S("p")})
OptionsChoices ==
  Opt("options",
      {ArrNode(<<>>),
       ArrNode(<<ObjNode(<<Member("value", S("v")), Member("label", S("V"))>>)>>),
       ArrNode(<<ObjNode(<<Member("value", S("v")), Member("label", S("V"))>>),
                 ObjNode(<<Member("value", S("")), Member("label", S(""))>>)>>),
       Lit(JNull)})

\* Every combination of the choices above as one field.
FieldNodes ==
  {ObjNode(i \o t \o l \o r \o p \o v \o o) :
     i \in IdChoices, t \in TypeChoices, l \in LabelChoices, r \in RequiredChoices,
     p \in PlaceholderChoices, v \in ValidationChoices, o \in OptionsChoices}

\* The fields of the documents with several fields.
FewFieldNodes ==
  {FieldNode("a", "text", TRUE, <<>>), FieldNode("a", "select", FALSE, <<>>),
   FieldNode("b", "radio", FALSE, <<>>), FieldNode("", "text", FALSE, <<>>),
   FieldNode("c", "date", FALSE, <<Member("label", S(""))>>), S("x")}

SeqsUpTo(set, n) == UNION {[1..k -> set] : k \in 0..n}

TopNode(title, description, fields) == ObjNode(title \o description \o fields)

ValidatorTexts ==
  {SchemaText(<<f>>) : f \in FieldNodes}
  \cup {SchemaText(fs) : fs \in SeqsUpTo(FewFieldNodes, MaxFields)}
  \cup {JsonText(TopNode(t, d, f)) :
          t \in Opt("formTitle", {S("T"), S(""), Lit(JNum(1))}),
          d \in Opt("formDescription", {S("D"), S("")}),
          f \in Opt("fields", {ArrNode(<<>>), ArrNode(<<FieldNode("a", "text", TRUE, <<>>)>>),
                               S("x")})}
  \cup {JsonText(Lit(JNull)), JsonText(ArrNode(<<>>)), JsonText(S("x")),
        JsonText(ObjNode(<<Member("formTitle", S("")), Member("formTitle", S("T")),
                           Member("formDescription", S("D")),
                           Member("fields", ArrNode(<<FieldNode("a", "text", TRUE, <<>>)>>))>>))}
  \cup {TruncatedText, MalformedText("{]", "Unexpected token ] in JSON at position 1"),
        DuplicateIdText}

\* No editor change has happened yet.
Unedited == jsonCode = InitialText /\ error = JNull

FirstEdit == Unedited /\ \E value \in ValidatorTexts : handleEditorChange(value)

NextValidate == FirstEdit

SpecValidate == Init /\ [][NextValidate]_vars

(***************************************************************************)
(* The validator fed its own output: an editor change, then the accepted   *)
(* document written out by JSON.stringify and handed back to the editor.   *)
(* The texts add members the contract does not name, which z.object lets   *)
(* through, with values of every JSON kind.                                *)
(***************************************************************************)
ExtraNodes ==
  {S("1"), Lit(JNum(2)), Lit(JInfinity), Lit(JNull), ArrNode(<<Lit(JNum(2))>>),
   ObjNode(<<Member("limit", Lit(JInfinity))>>)}

ExtraMembers == {<<Member("version", n)>> : n \in ExtraNodes} \cup {Absent}

ExtraMemberTexts ==
  {JsonText(ObjNode(<<Member("formTitle", S("T")), Member("formDescription", S("D")),
                      Member("fields", ArrNode(<<FieldNode("a", "text", TRUE, f)>>))>>
                    \o t)) :
     f \in ExtraMembers, t \in ExtraMembers}

RoundTripTexts == ValidatorTexts \cup ExtraMemberTexts

FirstEditRoundTrip == Unedited /\ \E value \in RoundTripTexts : handleEditorChange(value)

\* The accepted document goes back into the editor as JSON.stringify writes it.
Reserialize ==
  /\ ~Unedited
  /\ ~Truthy(error)
  /\ Truthy(parsedJson)
  /\ handleEditorChange(JSON_stringify(parsedJson))

NextRoundTrip ==
  \/ FirstEditRoundTrip
  \/ Reserialize

SpecRoundTrip == Init /\ [][NextRoundTrip]_vars

(***************************************************************************)
(* The editor on its own: one editor change after the other, over texts    *)
(* that do not parse, texts that parse and break the contract, and         *)
(* accepted texts.                                                         *)
(***************************************************************************)
EditTexts ==
  {SchemaText(fs) : fs \in SeqsUpTo(FewFieldNodes, MaxFields)}
  \cup {SchemaText(<<FieldNode("a", t, TRUE, ValidationMember(p, "m"))>>) :
          t \in FieldType \cup {"date"}, p \in {EmailPattern, ""}}
  \cup ExtraMemberTexts
  \cup EditorTexts
  \cup {InitialText, TwoEmptyIdsText, DuplicateIdText, JsonText(Lit(JNull)),
        MalformedText("{]", "Unexpected token ] in JSON at position 1"),
        MalformedText("", "Unexpected end of JSON input")}

EditorChangeAgain == \E value \in EditTexts : handleEditorChange(value)

NextEdits == EditorChangeAgain

SpecEdits == Init /\ [][NextEdits]_vars

(***************************************************************************)
(* Properties.                                                             *)
(***************************************************************************)

\* C1: the Submission sequence only ever changes by an accepted submit
\* appending exactly one entry at the end; every earlier entry keeps its
\* position and content, and no editor change, field change, export or timer
\* callback shortens or alters it.
C1_SubmissionsAppendOnly ==
  [][submissions' # submissions =>
       /\ Len(submissions') = Len(submissions) + 1
       /\ SubSeq(submissions', 1, Len(submissions)) = submissions
       /\ submissions'[Len(submissions')] = Submission
       /\ successMessage' = JStr("Form submitted successfully!")
       /\ jsonCode' = jsonCode]_vars

\* Two entries were accepted and the schema text was then replaced by a
\* malformed one; both entries are still there.
C1_Witness ==
  /\ Len(submissions) = 2
  /\ jsonCode = TruncatedText
  /\ Get(submissions[1], "submittedAt") # Get(submissions[2], "submittedAt")

\* C2: while the timer of the newest accepted submission is still pending, the
\* success message it set stays set: the callback of an earlier submission
\* does not clear it.
C2_StaleTimerKeepsNewerMessage ==
  (timers # <<>> /\ timers[Len(timers)] = Len(submissions)) => Truthy(successMessage)

\* C3: formData and fieldErrors are both empty right after every editor change
\* that makes a new valid schema the active document, and right after every
\* accepted submission.
C3_ResetOnNewDocumentOrSubmit ==
  [][(\/ parsedJson' # parsedJson /\ Truthy(parsedJson')
      \/ Len(submissions') > Len(submissions))
     => (formData' = EmptyObject /\ fieldErrors' = EmptyObject)]_vars

\* C4: no handler lets an exception escape, whatever accepted document is
\* active and whatever value a field is given.
C4_NoHandlerThrows == ~event.threw

\* C5: the sink is called for copy or download of the schema only when the
\* current document is valid, and for download of submissions only when the
\* Submission sequence is non-empty; otherwise a refusal is shown.
C5_SinkOnlyWhenValid ==
  /\ event.sink \in {"copyText", "downloadSchema"} => Truthy(parsedJson)
  /\ event.sink = "downloadSubmissions" => Len(submissions) # 0

\* The ids of the fields of a document value.
FieldIdsOf(doc) == LET fs == Get(doc.o, "fields").a IN [i \in 1..Len(fs) |-> Get(fs[i].o, "id")]

\* C6: the active document always has pairwise distinct field ids.
C6_ActiveDocumentHasDistinctIds ==
  Truthy(parsedJson) =>
    \A i, j \in 1..Len(FieldIdsOf(parsedJson)) :
      FieldIdsOf(parsedJson)[i] = FieldIdsOf(parsedJson)[j] => i = j

\* C7: whenever the current text fails parsing, the error is exactly the
\* parser's message (one violation) and there is no active document.
C7_ParseFailureSingleViolation ==
  JSON_parse(jsonCode).threw =>
    /\ error = JStr(JSON_parse(jsonCode).message)
    /\ parsedJson = JUndefined

\* A malformed text arrived while a document had been active and used.
C7_Witness ==
  /\ jsonCode = TruncatedText
  /\ error = JStr("Unexpected end of JSON input")
  /\ Len(submissions) > 0

(***************************************************************************)
(* The contract as the specification words it, independent of the          *)
(* validator: which constraints a parsed value violates, by path.          *)
(***************************************************************************)
Present(x) == x.t # "undefined"
NonEmptyString(x) == x.t = "string" /\ x.s # ""
SixKinds == {"text", "email", "select", "radio", "textarea", "checkbox"}

\* {p} when the constraint at path p is violated, {} otherwise.
Violated(p, broken) == IF broken THEN {p} ELSE {}

OptionViolations(o, p) ==
  IF o.t # "object" THEN {p}
  ELSE Violated(Append(p, "value"), ~NonEmptyString(Get(o.o, "value")))
       \cup Violated(Append(p, "label"), ~NonEmptyString(Get(o.o, "label")))

FieldViolations(f, p) ==
  IF f.t # "object" THEN {p}
  ELSE LET validation == Get(f.o, "validation")
           options == Get(f.o, "options")
           type == Get(f.o, "type")
       IN Violated(Append(p, "id"), ~NonEmptyString(Get(f.o, "id")))
          \cup Violated(Append(p, "type"), ~(type.t = "string" /\ type.s \in SixKinds))
          \cup Violated(Append(p, "label"), ~NonEmptyString(Get(f.o, "label")))
          \cup Violated(Append(p, "required"), Get(f.o, "required").t # "boolean")
          \cup Violated(Append(p, "placeholder"),
                        Present(Get(f.o, "placeholder")) /\ Get(f.o, "placeholder").t # "string")
          \cup (IF ~Present(validation) THEN {}
                ELSE IF validation.t # "object" THEN {Append(p, "validation")}
                ELSE Violated(p \o <<"validation", "pattern">>,
                              ~NonEmptyString(Get(validation.o, "pattern")))
                     \cup Violated(p \o <<"validation", "message">>,
                                   ~NonEmptyString(Get(validation.o, "message"))))
          \cup (IF ~Present(options) THEN {}
                ELSE IF options.t # "array" THEN {Append(p, "options")}
                ELSE UNION {OptionViolations(options.a[i], p \o <<"options", ToString(i - 1)>>) :
                              i \in 1..Len(options.a)})

ContractViolations(v) ==
  IF v.t # "object" THEN {<<>>}
  ELSE LET fields == Get(v.o, "fields") IN
       Violated(<<"formTitle">>, ~NonEmptyString(Get(v.o, "formTitle")))
       \cup Violated(<<"formDescription">>, ~NonEmptyString(Get(v.o, "formDescription")))
       \cup (IF fields.t # "array" THEN {<<"fields">>}
             ELSE Violated(<<"fields">>, Len(fields.a) < 1)
                  \cup UNION {FieldViolations(fields.a[i], <<"fields", ToString(i - 1)>>) :
                                i \in 1..Len(fields.a)})

\* The text of the editor has been through handleEditorChange and parsed.
EditedAndParsed == ~Unedited /\ ~JSON_parse(jsonCode).threw

\* C8: for a text that parses but violates the contract, the error lists every
\* violated constraint, one `path: message` entry each, with no entry left out
\* and none repeated: k violated constraints give k distinct entries.
C8_AllViolationsReported ==
  (EditedAndParsed /\ ContractViolations(JSON_parse(jsonCode).value) # {}) =>
    LET v == JSON_parse(jsonCode).value
        issues == JsonSchemaValidator(v)
    IN /\ error = JStr(FormatErrors(issues))
       /\ parsedJson = JUndefined
       /\ Len(issues) = Cardinality(ContractViolations(v))
       /\ {issues[i].path : i \in 1..Len(issues)} = ContractViolations(v)
       /\ Cardinality({issues[i] : i \in 1..Len(issues)}) = Len(issues)

\* Two fields with empty ids: two entries, one per field.
C8_Witness ==
  /\ jsonCode = TwoEmptyIdsText
  /\ error = JStr("fields -> 0 -> id: Field ID is required.\nfields -> 1 -> id: Field ID is required.")

\* { formTitle: "T", formDescription: "D", fields: [] }
EmptyFieldsDocument ==
  JObj([formTitle |-> JStr("T"), formDescription |-> JStr("D"), fields |-> JArr(<<>>)])

\* C9: a parsed document becomes the active document exactly when it violates
\* none of the contract's constraints (so a select or radio field without
\* options is accepted); an empty fields sequence is rejected with a violation
\* at path `fields`.
C9_AcceptedIffContract ==
  EditedAndParsed =>
    LET v == JSON_parse(jsonCode).value IN
    /\ Truthy(parsedJson) <=> ContractViolations(v) = {}
    /\ Truthy(parsedJson) => (parsedJson = v /\ error = JNull)
    /\ ~Truthy(parsedJson) => (parsedJson = JUndefined /\ Truthy(error))
    /\ v = EmptyFieldsDocument =>
         error = JStr("fields: Fields array must have at least one field.")
    /\ (v.t = "object" /\ Get(v.o, "fields") = JArr(<<>>)) =>
         \E i \in 1..Len(JsonSchemaValidator(v)) : JsonSchemaValidator(v)[i].path = <<"fields">>

\* A document with a select and a radio field, neither with options, is active.
C9_Witness ==
  /\ Truthy(parsedJson)
  /\ \E i, j \in 1..Len(Get(parsedJson.o, "fields").a) :
       LET f == Get(parsedJson.o, "fields").a[i]
           g == Get(parsedJson.o, "fields").a[j]
       IN /\ Get(f.o, "type") = JStr("select") /\ ~Present(Get(f.o, "options"))
          /\ Get(g.o, "type") = JStr("radio") /\ ~Present(Get(g.o, "options"))

MismatchedFields ==
  {i \in 1..Len(RenderedFields) :
     LET field == RenderedFields[i]
         rule == Get(field.o, "validation")
         value == Get(formData, FieldId(field))
     IN /\ Present(rule)
        /\ Truthy(value)
        /\ ~RegExpTest(Get(rule.o, "pattern").s, ToJsString(value))}

\* C11: a submit with a valid document and no pattern mismatch appends exactly
\* one entry, the formData snapshot plus submittedAt, leaves formData and
\* fieldErrors empty and sets the success message.
C11_AcceptedSubmitEffects ==
  [][(FormRendered /\ MismatchedFields = {} /\ handleSubmit) =>
       /\ Len(submissions') = Len(submissions) + 1
       /\ SubSeq(submissions', 1, Len(submissions)) = submissions
       /\ \A k \in DOMAIN formData \ {"submittedAt"} :
            Get(submissions'[Len(submissions')], k) = formData[k]
       /\ DOMAIN submissions'[Len(submissions')] = DOMAIN formData \cup {"submittedAt"}
       /\ Get(submissions'[Len(submissions')], "submittedAt") = Now
       /\ formData' = EmptyObject
       /\ fieldErrors' = EmptyObject
       /\ successMessage' = JStr("Form submitted successfully!")]_vars

\* A submit with both fields filled was accepted and the form is empty again.
C11_Witness ==
  /\ Len(submissions) = 1
  /\ Get(submissions[1], "email") = JStr("a@b.co")
  /\ Get(submissions[1], "name") = JStr("bad")
  /\ formData = EmptyObject
  /\ fieldErrors = EmptyObject
  /\ Truthy(successMessage)

\* C12: a submit handled while the error is set leaves formData, fieldErrors,
\* submissions and the success message as they were and schedules no timer.
C12_InvalidSubmitChangesNothing ==
  [][(Truthy(error) /\ handleSubmit) =>
       /\ UNCHANGED <<formData, fieldErrors, submissions, successMessage, timers>>
       /\ event'.alert = "Cannot submit invalid JSON!"]_vars

\* A submit has just been refused while entered values were waiting.
C12_Witness ==
  /\ Truthy(error)
  /\ event.alert = "Cannot submit invalid JSON!"
  /\ Get(formData, "name") = JStr("bad")
  /\ submissions = <<>>
  /\ timers = <<>>

\* C13: copy or download of the schema while the error is set, and download
\* of the submissions while there are none, call no sink, show a notice and
\* change no state.
C13_RefusedExportChangesNothing ==
  [][(\/ Truthy(error) /\ (handleCopy \/ handleDownload)
      \/ Len(submissions) = 0 /\ handleDownloadSubmissions) =>
       /\ event'.sink = "none"
       /\ event'.alert # "none"
       /\ UNCHANGED <<jsonCode, parsedJson, error, formData, fieldErrors,
                      submissions>>]_vars

\* A copy has just been refused: the error is set and nothing was entered
\* into a sink.
C13_Witness ==
  /\ Truthy(error)
  /\ event = [Quiet EXCEPT !.alert = "Cannot copy invalid JSON!"]
  /\ formData # EmptyObject

\* C14: an accepted document, written out and fed back through the editor
\* change, is accepted again and the active document is equal to the first.
C14_RoundTripKeepsDocument ==
  [][(/\ ~Unedited
      /\ ~Truthy(error)
      /\ Truthy(parsedJson)
      /\ jsonCode' = JSON_stringify(parsedJson)) =>
       /\ error' = JNull
       /\ parsedJson' = parsedJson]_vars

\* C15: with a valid document a submit is accepted exactly when no
\* rule-bearing field with a non-empty value fails its pattern, and the entry
\* it appends holds, for each rule-bearing field of the active document, no
\* value, an empty value or a value that matches the field's pattern.
C15_AcceptedIffNoMismatch ==
  [][Submit =>
       /\ Len(submissions') = Len(submissions) + 1 <=> MismatchedFields = {}
       /\ Len(submissions') = Len(submissions) + 1 =>
            \A i \in 1..Len(RenderedFields) :
              LET field == RenderedFields[i]
                  rule == Get(field.o, "validation")
                  held == Get(submissions'[Len(submissions')], FieldId(field))
              IN Present(rule) =>
                   \/ ~Truthy(held)
                   \/ RegExpTest(Get(rule.o, "pattern").s, ToJsString(held))]_vars

\* The map a rejected submit is to leave: each failing field's id with the
\* configured message of the last failing field under that id.
AccumulatedErrors ==
  LET failing(id) == {i \in MismatchedFields : FieldId(RenderedFields[i]) = id}
      last(id) == CHOOSE i \in failing(id) : \A j \in failing(id) : j <= i
  IN [id \in {FieldId(RenderedFields[i]) : i \in MismatchedFields} |->
        Get(Get(RenderedFields[last(id)].o, "validation").o, "message")]

\* C16: after a submit with at least one pattern mismatch fieldErrors is
\* exactly the map from each failing field id to its message, and formData
\* and submissions are as before.
C16_RejectedSubmitErrors ==
  [][(Submit /\ MismatchedFields # {}) =>
       /\ fieldErrors' = AccumulatedErrors
       /\ formData' = formData
       /\ submissions' = submissions]_vars

\* C17: an accepted submit sets the success message, and a success message
\* that is set is eventually cleared by a timeout callback: it never stays
\* set forever.
C17_SuccessMessageClears ==
  /\ [][Len(submissions') > Len(submissions) => Truthy(successMessage')]_vars
  /\ (Truthy(successMessage) ~> ~Truthy(successMessage))

\* The message of the last accepted submit has been cleared and no callback
\* is pending.
C17_Witness ==
  /\ Len(submissions) > 0
  /\ successMessage = JNull
  /\ timers = <<>>

\* C18: a field change on an email field that carries a rule sets the field's
\* fieldErrors entry to the configured message when the new value fails the
\* pattern and to "" when it matches; a field change on any other field
\* leaves fieldErrors as it was.
C18_EagerEmailValidation ==
  [][FormRendered =>
       \A i \in 1..Len(RenderedFields) :
         \A value \in ControlValues(RenderedFields[i]) :
           LET field == RenderedFields[i]
               rule == Get(field.o, "validation")
           IN handleFieldChange(field, value) =>
                IF Get(field.o, "type") = JStr("email") /\ Present(rule)
                  THEN Get(fieldErrors', FieldId(field)) =
                         IF RegExpTest(Get(rule.o, "pattern").s, ToJsString(value))
                           THEN JStr("")
                           ELSE Get(rule.o, "message")
                  ELSE fieldErrors' = fieldErrors]_vars

\* C19: a field change on field f writes only formData[f.id] and
\* fieldErrors[f.id]; the value and the entry of every other id, the active
\* document, the error and submissions are as before.
C19_FieldChangeFrame ==
  [][FormRendered =>
       \A i \in 1..Len(RenderedFields) :
         \A value \in ControlValues(RenderedFields[i]) :
           LET id == FieldId(RenderedFields[i])
           IN handleFieldChange(RenderedFields[i], value) =>
                /\ Get(formData', id) = value
                /\ \A k \in (DOMAIN formData \cup DOMAIN formData') \ {id} :
                     Get(formData', k) = Get(formData, k)
                /\ \A k \in (DOMAIN fieldErrors \cup DOMAIN fieldErrors') \ {id} :
                     Get(fieldErrors', k) = Get(fieldErrors, k)
                /\ UNCHANGED <<parsedJson, error, submissions>>]_vars

\* The email field was changed while the name field's message from a rejected
\* submit was standing: both entries are there.
C19_Witness ==
  /\ FormRendered
  /\ Get(fieldErrors, "name") = JStr(LettersMessage)
  /\ Get(fieldErrors, "email") = JStr(EmailMessage)
  /\ Get(formData, "email") = JStr("bad")
  /\ Get(formData, "name") = JStr("a@b.co")

\* C20: after an editor change either the latest text parsed and met the
\* contract, the error is null and the active document is the parse of that
\* text, or the latest text failed, the error is a non-empty message and there
\* is no active document.
C20_DocumentOrError ==
  ~Unedited =>
    LET r == JSON_parse(jsonCode) IN
    IF ~r.threw /\ ContractViolations(r.value) = {}
      THEN /\ error = JNull
           /\ parsedJson = r.value
      ELSE /\ error.t = "string"
           /\ error.s # ""
           /\ parsedJson = JUndefined

\* The latest text parses and breaks the contract: the error is set and no
\* document is active.
C20_Witness ==
  /\ jsonCode = TwoEmptyIdsText
  /\ Truthy(error)
  /\ parsedJson = JUndefined

\* C21: in every state, a field of the active document whose current value
\* is empty or absent carries no message in fieldErrors: an empty value is
\* never reported as a pattern mismatch.
C21_EmptyValueHasNoMessage ==
  FormRendered =>
    \A i \in 1..Len(RenderedFields) :
      LET id == FieldId(RenderedFields[i])
      IN ~Truthy(Get(formData, id)) => ~Truthy(Get(fieldErrors, id))

\* C22: in every state, a non-empty fieldErrors entry under an id is the
\* current violation of a field: the active document has a field with that id
\* that carries a rule, and the field's current value fails the rule's pattern.
C22_MessageIsCurrentViolation ==
  \A id \in DOMAIN fieldErrors :
    Truthy(fieldErrors[id]) =>
      /\ Truthy(parsedJson)
      /\ \E i \in 1..Len(RenderedFields) :
           LET field == RenderedFields[i]
               rule == Get(field.o, "validation")
           IN /\ FieldId(field) = id
              /\ Present(rule)
              /\ ~RegExpTest(Get(rule.o, "pattern").s, ToJsString(Get(formData, id)))

\* C23: the entry an accepted submit appends has, besides submittedAt, only
\* ids of fields of the active document as keys, and holds under every id
\* present in formData, the id "submittedAt" included, the value entered.
C23_EntryIsFaithfulSnapshot ==
  [][(Submit /\ Len(submissions') = Len(submissions) + 1) =>
       LET entry == submissions'[Len(submissions')]
           ids == {FieldId(RenderedFields[i]) : i \in 1..Len(RenderedFields)}
       IN /\ DOMAIN entry \ {"submittedAt"} \subseteq ids
          /\ \A id \in DOMAIN formData : Get(entry, id) = formData[id]]_vars

====
